---- MODULE Spec2Model ----
(***************************************************************************)
(* Model of report.py: the employee-table loader, the two aggregators      *)
(* (department -> teams hierarchy, per-department salary summary), the     *)
(* renderers, the csv persister and the interactive menu loop.             *)
(*                                                                         *)
(* Text is modelled as a sequence of symbols.  A symbol is a one-character *)
(* string for everything the program interprets (digits, sign, decimal     *)
(* point, the separators, the quote) and one string per word for text the  *)
(* program only copies (names, column titles, the fixed parts of printed   *)
(* lines).  A file is a sequence of lines, a line a sequence of symbols.   *)
(* The Cyrillic column titles of the source are written transliterated.    *)
(***************************************************************************)
EXTENDS Integers, Sequences, FiniteSets

VARIABLES
    inputFile,    \* Corp_Summary.csv: File(lines), or NoFile
    outputFile,   \* Departments_Summary.csv: File(lines), or NoFile
    pc,           \* "menu" | "exited" | "crashed"
    option,       \* the text read by the last input() ("" before the first)
    error,        \* the uncaught exception that ended the process, or "None"
    printed,      \* the lines the last command printed (menu text excluded)
    rows,         \* main's local `rows` (<<>> while still unbound)
    summaries     \* the list last returned by build_department_summaries

vars == <<inputFile, outputFile, pc, option, error, printed, rows, summaries>>

-----------------------------------------------------------------------------
(* Module constants of report.py *)

INPUT_FILE_NAME == "Corp_Summary.csv"
OUTPUT_FILE_NAME == "Departments_Summary.csv"
DELIMITER == ";"

\* Column titles are texts of one word symbol each.
FULL_NAME_FIELD == <<"FIO polnostyu">>
DEPARTMENT_FIELD == <<"Departament">>
TEAM_FIELD == <<"Otdel">>
POSITION_FIELD == <<"Dolzhnost">>
RATING_FIELD == <<"Otsenka">>
SALARY_FIELD == <<"Oklad">>

\* The dict REQUIRED_FIELDS, in its insertion (= iteration) order.
REQUIRED_FIELDS ==
    << <<FULL_NAME_FIELD, "str">>, <<DEPARTMENT_FIELD, "str">>,
       <<TEAM_FIELD, "str">>, <<RATING_FIELD, "float">>,
       <<SALARY_FIELD, "int">> >>

RequiredNames == {REQUIRED_FIELDS[i][1] : i \in 1..Len(REQUIRED_FIELDS)}

\* DepartmentSummary._fields
SummaryFields ==
    << <<"name">>, <<"headcount">>, <<"min_salary">>, <<"max_salary">>,
       <<"avg_salary">> >>

\* csv.DictWriter is constructed without a delimiter argument, so the writer
\* separates fields with the csv module's default.
WriterDelimiter == ","
QuoteChar == "\""

NoFile == [exists |-> FALSE, lines |-> <<>>]
File(lines) == [exists |-> TRUE, lines |-> lines]

-----------------------------------------------------------------------------
(* Numbers.  A Python int is an Integer; a Python float is the exact       *)
(* rational <<n, d>> in lowest terms with d > 0.  Every float the model    *)
(* reaches is a quotient of small integers by 1..4 or a short decimal, far *)
(* inside the range where double arithmetic agrees with the rationals on   *)
(* comparison and on formatting.                                           *)

Abs(n) == IF n < 0 THEN -n ELSE n

RECURSIVE Gcd(_, _)
Gcd(a, b) == IF b = 0 THEN a ELSE Gcd(b, a % b)

\* int / int true division (also float(text) once numerator and scale are known)
TrueDiv(n, d) ==
    LET g == Gcd(Abs(n), d)
    IN  IF g = 0 THEN <<0, 1>> ELSE <<n \div g, d \div g>>

FloatLeq(x, y) == x[1] * y[2] <= y[1] * x[2]
IntToFloat(n) == <<n, 1>>

Digits == <<"0", "1", "2", "3", "4", "5", "6", "7", "8", "9">>
IsDigit(c) == \E i \in 1..10 : Digits[i] = c
DigitValue(c) == (CHOOSE i \in 1..10 : Digits[i] = c) - 1

RECURSIVE DigitsValue(_)
DigitsValue(t) ==
    IF t = <<>> THEN 0
    ELSE 10 * DigitsValue(SubSeq(t, 1, Len(t) - 1)) + DigitValue(t[Len(t)])

AllDigits(t) == \A i \in 1..Len(t) : IsDigit(t[i])
HasSign(t) == Len(t) > 0 /\ t[1] \in {"-", "+"}
Unsigned(t) == IF HasSign(t) THEN Tail(t) ELSE t
SignOf(t) == IF Len(t) > 0 /\ t[1] = "-" THEN -1 ELSE 1

\* int(text): an optional sign followed by one or more decimal digits (the
\* texts of the model carry no blanks and no underscores).
ParseInt(t) ==
    LET u == Unsigned(t)
    IN  IF Len(u) > 0 /\ AllDigits(u)
        THEN [ok |-> TRUE, val |-> SignOf(t) * DigitsValue(u)]
        ELSE [ok |-> FALSE, val |-> 0]

RECURSIVE Pow10(_)
Pow10(k) == IF k = 0 THEN 1 ELSE 10 * Pow10(k - 1)

\* float(text): an optional sign, digits with at most one decimal point and
\* at least one digit (the texts of the model carry no exponent, inf or nan).
ParseFloat(t) ==
    LET u == Unsigned(t)
        dots == {i \in 1..Len(u) : u[i] = "."}
        digs == SelectSeq(u, IsDigit)
        frac == IF dots = {} THEN 0 ELSE Len(u) - (CHOOSE i \in dots : TRUE)
    IN  IF /\ Cardinality(dots) <= 1
           /\ Len(digs) > 0
           /\ \A i \in 1..Len(u) : IsDigit(u[i]) \/ u[i] = "."
        THEN [ok |-> TRUE,
              val |-> TrueDiv(SignOf(t) * DigitsValue(digs), Pow10(frac))]
        ELSE [ok |-> FALSE, val |-> <<0, 1>>]

RECURSIVE NatToText(_)
NatToText(n) ==
    IF n < 10 THEN <<Digits[n + 1]>>
    ELSE NatToText(n \div 10) \o <<Digits[(n % 10) + 1]>>

\* str(int)
FormatInt(n) == IF n < 0 THEN <<"-">> \o NatToText(-n) ELSE NatToText(n)

\* The decimal digits of r/d (0 <= r < d) up to the last non-zero one; the
\* expansion ends for every d dividing a power of ten.
RECURSIVE FracDigits(_, _)
FracDigits(r, d) ==
    IF r = 0 THEN <<>>
    ELSE <<Digits[((10 * r) \div d) + 1]>> \o FracDigits((10 * r) % d, d)

\* str(float) as csv writes it: shortest decimal, always with a fraction part.
FormatFloat(x) ==
    LET a == Abs(x[1])
        f == FracDigits(a % x[2], x[2])
    IN  (IF x[1] < 0 THEN <<"-">> ELSE <<>>)
        \o NatToText(a \div x[2]) \o <<".">>
        \o (IF f = <<>> THEN <<"0">> ELSE f)

\* format(float, ".1f"): nearest tenth, an exact tie going to the even digit.
FormatFixed1(x) ==
    LET a == Abs(x[1])
        q == (10 * a) \div x[2]
        rem2 == 2 * ((10 * a) % x[2])
        tenths == IF rem2 > x[2] \/ (rem2 = x[2] /\ q % 2 = 1)
                  THEN q + 1 ELSE q
    IN  (IF x[1] < 0 THEN <<"-">> ELSE <<>>)
        \o NatToText(tenths \div 10) \o <<".">> \o <<Digits[(tenths % 10) + 1]>>

-----------------------------------------------------------------------------
(* The csv module, as far as report.py uses it.  Input lines carry no      *)
(* quote characters, and every data line has as many cells as the header.  *)

Range(s) == {s[i] : i \in 1..Len(s)}

\* The cells of a line from symbol i on, `cell` being the cell begun so far.
RECURSIVE SplitFrom(_, _, _, _)
SplitFrom(line, delim, i, cell) ==
    IF i > Len(line) THEN <<cell>>
    ELSE IF line[i] = delim THEN <<cell>> \o SplitFrom(line, delim, i + 1, <<>>)
    ELSE SplitFrom(line, delim, i + 1, Append(cell, line[i]))

\* csv.reader on one line: the cells between the separators; a blank line
\* gives the empty row.
Split(line, delim) ==
    IF line = <<>> THEN <<>> ELSE SplitFrom(line, delim, 1, <<>>)

RECURSIVE DoubleQuotes(_)
DoubleQuotes(t) ==
    IF t = <<>> THEN <<>>
    ELSE (IF t[1] = QuoteChar THEN <<QuoteChar, QuoteChar>> ELSE <<t[1]>>)
         \o DoubleQuotes(Tail(t))

\* csv.writer's QUOTE_MINIMAL: a field holding the separator or a quote is
\* written quoted.
WriterField(t, delim) ==
    IF \E i \in 1..Len(t) : t[i] \in {delim, QuoteChar}
    THEN <<QuoteChar>> \o DoubleQuotes(t) \o <<QuoteChar>>
    ELSE t

RECURSIVE Join(_, _)
Join(fields, delim) ==
    IF fields = <<>> THEN <<>>
    ELSE IF Len(fields) = 1 THEN WriterField(fields[1], delim)
    ELSE WriterField(fields[1], delim) \o <<delim>> \o Join(Tail(fields), delim)

\* csv.DictReader's row: dict(zip(fieldnames, row)); a repeated column title
\* keeps its last cell.
DictRow(fieldnames, cells) ==
    [name \in Range(fieldnames) |->
        cells[CHOOSE i \in 1..Len(fieldnames) :
                 /\ fieldnames[i] = name
                 /\ \A j \in (i + 1)..Len(fieldnames) : fieldnames[j] # name]]

-----------------------------------------------------------------------------
(* read_input_file *)

\* value(row[field]) for one entry of REQUIRED_FIELDS
FieldValue(row, k) ==
    LET field == REQUIRED_FIELDS[k][1]
        type == REQUIRED_FIELDS[k][2]
    IN  IF field \notin DOMAIN row THEN [err |-> "KeyError", val |-> <<>>]
        ELSE IF type = "str" THEN [err |-> "None", val |-> row[field]]
        ELSE IF type = "float"
             THEN LET p == ParseFloat(row[field])
                  IN  [err |-> IF p.ok THEN "None" ELSE "ValueError", val |-> p.val]
        ELSE LET p == ParseInt(row[field])
             IN  [err |-> IF p.ok THEN "None" ELSE "ValueError", val |-> p.val]

\* The five coercions of one row, in REQUIRED_FIELDS order.
FieldValues(row) ==
    <<FieldValue(row, 1), FieldValue(row, 2), FieldValue(row, 3),
      FieldValue(row, 4), FieldValue(row, 5)>>

FirstError(vals) ==
    IF \A k \in 1..Len(vals) : vals[k].err = "None" THEN "None"
    ELSE vals[CHOOSE k \in 1..Len(vals) :
                 /\ vals[k].err # "None"
                 /\ \A j \in 1..(k - 1) : vals[j].err = "None"].err

FieldIndex(field) == CHOOSE k \in 1..Len(REQUIRED_FIELDS) : REQUIRED_FIELDS[k][1] = field

\* Coerces the required cells in place and returns the reader's whole row.
LoadRecord_KeepAll(row) ==
    LET vals == FieldValues(row)
    IN  IF FirstError(vals) # "None" THEN [err |-> FirstError(vals), val |-> <<>>]
        ELSE [err |-> "None",
              val |-> [field \in DOMAIN row |->
                          IF field \in RequiredNames THEN vals[FieldIndex(field)].val
                          ELSE row[field]]]

\* The dict comprehension over REQUIRED_FIELDS.items(): the fields are taken
\* in the dict's order and the first failure is the one raised.
LoadRecord(row) ==
    LET vals == FieldValues(row)
    IN  IF FirstError(vals) # "None" THEN [err |-> FirstError(vals), val |-> <<>>]
        ELSE [err |-> "None",
              val |-> [field \in RequiredNames |-> vals[FieldIndex(field)].val]]

\* Skips the records that fail instead of raising.
RECURSIVE LoadRows_SkipBad(_, _)
LoadRows_SkipBad(fieldnames, lines) ==
    IF lines = <<>> THEN [err |-> "None", val |-> <<>>]
    ELSE LET cells == Split(lines[1], DELIMITER)
             rest == LoadRows_SkipBad(fieldnames, Tail(lines))
         IN  IF cells = <<>> THEN rest
             ELSE LET r == LoadRecord(DictRow(fieldnames, cells))
                  IN  IF r.err # "None" THEN rest
                      ELSE [err |-> "None", val |-> <<r.val>> \o rest.val]

\* The list comprehension over the reader: rows in file order, blank lines
\* skipped by DictReader, the first exception ending the whole load.
RECURSIVE LoadRows(_, _)
LoadRows(fieldnames, lines) ==
    IF lines = <<>> THEN [err |-> "None", val |-> <<>>]
    ELSE LET cells == Split(lines[1], DELIMITER)
         IN  IF cells = <<>> THEN LoadRows(fieldnames, Tail(lines))
             ELSE LET r == LoadRecord(DictRow(fieldnames, cells))
                  IN  IF r.err # "None" THEN [err |-> r.err, val |-> <<>>]
                      ELSE LET rest == LoadRows(fieldnames, Tail(lines))
                           IN  IF rest.err # "None" THEN rest
                               ELSE [err |-> "None", val |-> <<r.val>> \o rest.val]

read_input_file(file) ==
    IF ~file.exists THEN [err |-> "FileNotFoundError", val |-> <<>>]
    ELSE IF file.lines = <<>> THEN [err |-> "None", val |-> <<>>]
    ELSE LoadRows(Split(file.lines[1], DELIMITER), Tail(file.lines))

-----------------------------------------------------------------------------
(* The aggregators.  A dict is a sequence of [key, value] entries in       *)
(* insertion order, which is also the order Python iterates it in.         *)

Keys(dict) == {dict[i].key : i \in 1..Len(dict)}
Lookup(dict, k) == (CHOOSE i \in 1..Len(dict) : dict[i].key = k)

\* defaultdict(set): departments[key].add(team)
SetAdd(dict, k, team) ==
    IF k \in Keys(dict)
    THEN [dict EXCEPT ![Lookup(dict, k)].value = @ \cup {team}]
    ELSE Append(dict, [key |-> k, value |-> {team}])

\* defaultdict(list): salaries_by_department[key].append(salary)
ListAppend(dict, k, salary) ==
    IF k \in Keys(dict)
    THEN [dict EXCEPT ![Lookup(dict, k)].value = Append(@, salary)]
    ELSE Append(dict, [key |-> k, value |-> <<salary>>])

\* One set object shared by every department.
RECURSIVE CompanyHierarchy_SharedSet(_)
CompanyHierarchy_SharedSet(rs) ==
    IF rs = <<>> THEN <<>>
    ELSE LET all == {rs[i][TEAM_FIELD] : i \in 1..Len(rs)}
             prev == CompanyHierarchy_SharedSet(SubSeq(rs, 1, Len(rs) - 1))
             k == rs[Len(rs)][DEPARTMENT_FIELD]
         IN  [i \in 1..Len(prev) |-> [key |-> prev[i].key, value |-> all]]
             \o (IF k \in Keys(prev) THEN <<>> ELSE <<[key |-> k, value |-> all]>>)

\* Groups by the team column instead of the department column.
RECURSIVE CompanyHierarchy_ByTeam(_)
CompanyHierarchy_ByTeam(rs) ==
    IF rs = <<>> THEN <<>>
    ELSE SetAdd(CompanyHierarchy_ByTeam(SubSeq(rs, 1, Len(rs) - 1)),
                rs[Len(rs)][TEAM_FIELD], rs[Len(rs)][DEPARTMENT_FIELD])

\* The first loop of print_company_hierarchy: the dict `departments`.
RECURSIVE CompanyHierarchy(_)
CompanyHierarchy(rs) ==
    IF rs = <<>> THEN <<>>
    ELSE SetAdd(CompanyHierarchy(SubSeq(rs, 1, Len(rs) - 1)),
                rs[Len(rs)][DEPARTMENT_FIELD], rs[Len(rs)][TEAM_FIELD])

\* Iterating a set of str: some order, fixed by the process's string
\* hashing and not known to the program.
IterSet(S) ==
    CHOOSE q \in [1..Cardinality(S) -> S] : \A t \in S : \E i \in DOMAIN q : q[i] = t

RECURSIVE HierarchyLines(_)
HierarchyLines(dict) ==
    IF dict = <<>> THEN <<>>
    ELSE LET teams == IterSet(dict[1].value)
         IN  <<dict[1].key>>
             \o [i \in 1..Len(teams) |-> <<"  ">> \o teams[i]]
             \o HierarchyLines(Tail(dict))

\* The lines print_company_hierarchy writes to stdout.
print_company_hierarchy(rs) == HierarchyLines(CompanyHierarchy(rs))

RECURSIVE SalariesByDepartment(_)
SalariesByDepartment(rs) ==
    IF rs = <<>> THEN <<>>
    ELSE ListAppend(SalariesByDepartment(SubSeq(rs, 1, Len(rs) - 1)),
                    rs[Len(rs)][DEPARTMENT_FIELD], rs[Len(rs)][SALARY_FIELD])

\* Takes the first salary of the list for the smallest.
Min_First(s) == s[1]

Min(s) == CHOOSE m \in Range(s) : \A x \in Range(s) : m <= x
Max(s) == CHOOSE m \in Range(s) : \A x \in Range(s) : x <= m

RECURSIVE Sum(_)
Sum(s) == IF s = <<>> THEN 0 ELSE s[1] + Sum(Tail(s))

DepartmentSummary(name, headcount, min_salary, max_salary, avg_salary) ==
    [name |-> name, headcount |-> headcount, min_salary |-> min_salary,
     max_salary |-> max_salary, avg_salary |-> avg_salary]

\* Counts the distinct salaries of a department instead of its records.
build_department_summaries_Distinct(rs) ==
    LET d == SalariesByDepartment(rs)
    IN  [i \in 1..Len(d) |->
            DepartmentSummary(d[i].key, Cardinality(Range(d[i].value)),
                              Min(d[i].value), Max(d[i].value),
                              TrueDiv(Sum(d[i].value), Len(d[i].value)))]

build_department_summaries(rs) ==
    LET d == SalariesByDepartment(rs)
    IN  [i \in 1..Len(d) |->
            DepartmentSummary(d[i].key, Len(d[i].value),
                              Min(d[i].value), Max(d[i].value),
                              TrueDiv(Sum(d[i].value), Len(d[i].value)))]

\* The lines print_department_summaries writes to stdout.
print_department_summaries(ss) ==
    [i \in 1..Len(ss) |->
        ss[i].name \o <<": headcount: ">> \o FormatInt(ss[i].headcount)
        \o <<", min: ">> \o FormatInt(ss[i].min_salary)
        \o <<", max: ">> \o FormatInt(ss[i].max_salary)
        \o <<", avg: ">> \o FormatFixed1(ss[i].avg_salary)]

\* summary._asdict() as the writer stringifies it, in fieldnames order
SummaryRow(s) ==
    <<s.name, FormatInt(s.headcount), FormatInt(s.min_salary),
      FormatInt(s.max_salary), FormatFloat(s.avg_salary)>>

\* The file write_department_summaries leaves behind: open(..., 'w'),
\* writeheader, writerows.
write_department_summaries(ss) ==
    File(<<Join(SummaryFields, WriterDelimiter)>>
         \o [i \in 1..Len(ss) |-> Join(SummaryRow(ss[i]), WriterDelimiter)])

-----------------------------------------------------------------------------
(* The input files the model ranges over *)

MaxRows == 3

Eng == <<"Eng">>
Sales == <<"Sales">>
Core == <<"Core">>
EMEA == <<"EMEA">>

AllColumns == <<FULL_NAME_FIELD, DEPARTMENT_FIELD, TEAM_FIELD, POSITION_FIELD,
                RATING_FIELD, SALARY_FIELD>>

Employee(name, department, team, rating, salary) ==
    [c \in Range(AllColumns) |->
        IF c = FULL_NAME_FIELD THEN name
        ELSE IF c = DEPARTMENT_FIELD THEN department
        ELSE IF c = TEAM_FIELD THEN team
        ELSE IF c = POSITION_FIELD THEN <<"Engineer">>
        ELSE IF c = RATING_FIELD THEN rating
        ELSE salary]

Employees ==
    { Employee(<<"Ivanov">>, Eng, Core, <<"4", ".", "5">>, <<"1", "2">>),
      Employee(<<"Petrov">>, Eng, EMEA, <<"3", ".", "2", "5">>, <<"-", "3">>),
      Employee(<<"Sidorov">>, Sales, Core, <<"5">>, <<"0">>),
      Employee(<<"Orlov">>, Eng, Core, <<"4", ".", "5">>, <<"2", ".", "5">>),
      Employee(<<"Volkov">>, Sales, EMEA, <<"n", "/", "a">>, <<"6">>) }

\* A header with every required column, permuted around the extra one, and
\* two headers that lack a required column.
Headers ==
    { <<SALARY_FIELD, TEAM_FIELD, POSITION_FIELD, DEPARTMENT_FIELD, RATING_FIELD,
        FULL_NAME_FIELD>>,
      <<FULL_NAME_FIELD, DEPARTMENT_FIELD, TEAM_FIELD, POSITION_FIELD, RATING_FIELD>>,
      <<FULL_NAME_FIELD, TEAM_FIELD, POSITION_FIELD, RATING_FIELD, SALARY_FIELD>> }

RECURSIVE Line(_)
Line(cells) ==
    IF Len(cells) = 1 THEN cells[1]
    ELSE cells[1] \o <<DELIMITER>> \o Line(Tail(cells))

\* The line of employee e in a table with the given header; <<>> is a blank line.
DataLine(header, e) ==
    IF e = <<>> THEN <<>> ELSE Line([i \in 1..Len(header) |-> e[header[i]]])

SeqsUpTo(S, n) == UNION {[1..k -> S] : k \in 0..n}

InputFiles ==
    {NoFile} \cup
    { File(<<Line(h)>> \o [i \in 1..Len(es) |-> DataLine(h, es[i])]) :
        h \in Headers, es \in SeqsUpTo(Employees \cup {<<>>}, MaxRows) }

\* A summary file left by an earlier run of the program.
OldOutput == File(<< Join(SummaryFields, WriterDelimiter), <<"Old", ",", "1", ",", "1", ",", "1", ",", "1", ".", "0">> >>)

-----------------------------------------------------------------------------
(* main *)

Init ==
    /\ inputFile \in InputFiles
    /\ outputFile \in {NoFile, OldOutput}
    /\ pc = "menu"
    /\ option = ""
    /\ error = "None"
    /\ printed = <<>>
    /\ rows = <<>>
    /\ summaries = <<>>

\* An exception nobody catches leaves main: traceback, process over.
Raise(e) ==
    /\ pc' = "crashed"
    /\ error' = e
    /\ printed' = <<>>
    /\ UNCHANGED <<rows, summaries>>

\* option == '1'.  r is the value read_input_file returns or the exception
\* it raises.
Command1 ==
    /\ pc = "menu"
    /\ option' = "1"
    /\ \E r \in {read_input_file(inputFile)} :
           IF r.err # "None" THEN Raise(r.err)
           ELSE /\ rows' = r.val
                /\ printed' = print_company_hierarchy(r.val)
                /\ UNCHANGED <<pc, error, summaries>>
    /\ UNCHANGED <<inputFile, outputFile>>

\* Keeps the rows of the earlier loads and adds the new ones to them.
Command2_Accumulate ==
    /\ pc = "menu"
    /\ option' = "2"
    /\ \E r \in {read_input_file(inputFile)} :
           IF r.err # "None" THEN Raise(r.err)
           ELSE /\ rows' = rows \o r.val
                /\ summaries' = build_department_summaries(rows \o r.val)
                /\ printed' = print_department_summaries(summaries')
                /\ UNCHANGED <<pc, error>>
    /\ UNCHANGED <<inputFile, outputFile>>

\* option == '2'
Command2 ==
    /\ pc = "menu"
    /\ option' = "2"
    /\ \E r \in {read_input_file(inputFile)} :
           IF r.err # "None" THEN Raise(r.err)
           ELSE /\ rows' = r.val
                /\ summaries' = build_department_summaries(r.val)
                /\ printed' = print_department_summaries(summaries')
                /\ UNCHANGED <<pc, error>>
    /\ UNCHANGED <<inputFile, outputFile>>

\* Opens the destination for writing before the input is loaded.
Command3_OpenFirst ==
    /\ pc = "menu"
    /\ option' = "3"
    /\ \E r \in {read_input_file(inputFile)} :
           IF r.err # "None"
           THEN Raise(r.err) /\ outputFile' = File(<<>>)
           ELSE /\ rows' = r.val
                /\ summaries' = build_department_summaries(r.val)
                /\ outputFile' = write_department_summaries(summaries')
                /\ printed' = <<>>
                /\ UNCHANGED <<pc, error>>
    /\ UNCHANGED inputFile

\* option == '3'
Command3 ==
    /\ pc = "menu"
    /\ option' = "3"
    /\ \E r \in {read_input_file(inputFile)} :
           IF r.err # "None"
           THEN Raise(r.err) /\ UNCHANGED outputFile
           ELSE /\ rows' = r.val
                /\ summaries' = build_department_summaries(r.val)
                /\ outputFile' = write_department_summaries(summaries')
                /\ printed' = <<>>
                /\ UNCHANGED <<pc, error>>
    /\ UNCHANGED inputFile

\* Any other text: no branch of the if chain is taken, the loop goes round.
Unrecognised ==
    /\ pc = "menu"
    /\ option' \in {"", "4"}
    /\ printed' = <<>>
    /\ UNCHANGED <<inputFile, outputFile, pc, error, rows, summaries>>

\* option == 'q': sys.exit(0)
Quit ==
    /\ pc = "menu"
    /\ option' = "q"
    /\ pc' = "exited"
    /\ printed' = <<>>
    /\ UNCHANGED <<inputFile, outputFile, error, rows, summaries>>

Next == Command1 \/ Command2 \/ Command3 \/ Unrecognised \/ Quit

Spec == Init /\ [][Next]_vars

-----------------------------------------------------------------------------
(* Vocabulary of the properties *)

Loaded == pc = "menu" /\ option \in {"1", "2", "3"}
Departments(rs) == {rs[i][DEPARTMENT_FIELD] : i \in 1..Len(rs)}
RecordsOf(rs, D) == {i \in 1..Len(rs) : rs[i][DEPARTMENT_FIELD] = D}
Names(ss) == {ss[i].name : i \in 1..Len(ss)}

HeaderOf(file) == Split(file.lines[1], DELIMITER)
HeaderComplete(file) == RequiredNames \subseteq Range(HeaderOf(file))
DataLines(file) == SelectSeq(Tail(file.lines), LAMBDA l : l # <<>>)

\* Under a title of the header, a rating that is no float or a salary that
\* is no integer.
BadCells(header, cells) ==
    \E p \in 1..Len(header) :
        \/ header[p] = RATING_FIELD /\ ~ParseFloat(cells[p]).ok
        \/ header[p] = SALARY_FIELD /\ ~ParseInt(cells[p]).ok
BadLine(file, line) == BadCells(HeaderOf(file), Split(line, DELIMITER))
HasBadCell(file) ==
    \E i \in 2..Len(file.lines) :
        file.lines[i] # <<>> /\ BadLine(file, file.lines[i])

\* The record holds, for each required title of the header, the coerced cell
\* under that title.
RecordOfCells(record, header, cells) ==
    \A p \in 1..Len(header) :
        /\ header[p] \in {FULL_NAME_FIELD, DEPARTMENT_FIELD, TEAM_FIELD}
              => record[header[p]] = cells[p]
        /\ header[p] = RATING_FIELD => record[header[p]] = ParseFloat(cells[p]).val
        /\ header[p] = SALARY_FIELD => record[header[p]] = ParseInt(cells[p]).val

\* C1: the summaries name each department of the records exactly once, and
\* the headcount of a department is the number of its records (so it is at
\* least 1, and the headcounts add up to the number of records).
C1_HeadcountPerDepartment ==
    LET ss == build_department_summaries(rows)
    IN  /\ Names(ss) = Departments(rows)
        /\ Len(ss) = Cardinality(Departments(rows))
        /\ \A i \in 1..Len(ss) :
              /\ ss[i].headcount = Cardinality(RecordsOf(rows, ss[i].name))
              /\ ss[i].headcount >= 1
        /\ Sum([i \in 1..Len(ss) |-> ss[i].headcount]) = Len(rows)

C1_Witness ==
    /\ Loaded
    /\ Len(build_department_summaries(rows)) = 2
    /\ \E i \in 1..2 : build_department_summaries(rows)[i].headcount = 2

C3_SameDepartments ==
    /\ Keys(CompanyHierarchy(rows)) = Names(build_department_summaries(rows))
    /\ rows = <<>> => CompanyHierarchy(rows) = <<>> /\ build_department_summaries(rows) = <<>>

C3_Witness ==
    /\ Loaded
    /\ Cardinality(Keys(CompanyHierarchy(rows))) = 2
    /\ Len(rows) = 3

\* C4: team T is in the set kept under department D exactly when some record
\* has department D and team T.
C4_TeamsOfDepartment ==
    LET h == CompanyHierarchy(rows)
        teams == {rows[i][TEAM_FIELD] : i \in 1..Len(rows)}
    IN  /\ \A i, j \in 1..Len(h) : h[i].key = h[j].key => i = j
        /\ \A i \in 1..Len(h) : h[i].value \subseteq teams
        /\ \A D \in Departments(rows) \cup Keys(h) : \A T \in teams :
              (D \in Keys(h) /\ T \in h[Lookup(h, D)].value)
              <=> (\E i \in 1..Len(rows) : rows[i][DEPARTMENT_FIELD] = D
                                           /\ rows[i][TEAM_FIELD] = T)

\* One team under two departments and a second team under only one of them.
C4_Witness ==
    /\ Loaded /\ option = "1"
    /\ LET h == CompanyHierarchy(rows)
       IN  /\ Len(h) = 2
           /\ h[1].value \cap h[2].value # {}
           /\ h[1].value # h[2].value

\* C5 (as claimed): a header without one of the required columns makes every
\* load fail, whatever follows the header.
C5_MissingColumnAlwaysFails ==
    (inputFile.exists /\ ~HeaderComplete(inputFile) /\ option \in {"1", "2", "3"})
    => pc = "crashed" /\ error # "None"

\* C6: a rating or salary cell that cannot be coerced, in any data row, makes
\* the load fail as a whole: no records reach main, nothing is printed and
\* nothing is written; with all required columns present the exception is
\* the ValueError of the coercion.
C6_AllOrNothing ==
    (inputFile.exists /\ HasBadCell(inputFile)) =>
        /\ rows = <<>> /\ summaries = <<>> /\ printed = <<>>
        /\ outputFile \in {NoFile, OldOutput}
        /\ option \in {"1", "2", "3"} =>
              /\ pc = "crashed"
              /\ error \in {"ValueError", "KeyError"}
              /\ HeaderComplete(inputFile) => error = "ValueError"

\* The bad cell is in the third data row, after two rows that load.
C6_Witness ==
    /\ pc = "crashed" /\ error = "ValueError" /\ option = "3"
    /\ outputFile = OldOutput
    /\ inputFile.exists /\ Len(DataLines(inputFile)) = 3
    /\ ~BadLine(inputFile, DataLines(inputFile)[1])
    /\ ~BadLine(inputFile, DataLines(inputFile)[2])
    /\ BadLine(inputFile, DataLines(inputFile)[3])

\* C7: with every required column in the header and every cell coercible,
\* the load returns one record per data row, in file order, holding exactly
\* the five required fields with that row's coerced cells.
C7_RecordPerRow ==
    (inputFile.exists /\ HeaderComplete(inputFile) /\ ~HasBadCell(inputFile)) =>
        LET r == read_input_file(inputFile)
            d == DataLines(inputFile)
        IN  /\ r.err = "None"
            /\ Len(r.val) = Len(d)
            /\ \A i \in 1..Len(r.val) :
                  /\ DOMAIN r.val[i] = RequiredNames
                  /\ RecordOfCells(r.val[i], HeaderOf(inputFile), Split(d[i], DELIMITER))
            /\ Loaded => rows = r.val

\* Three rows under the header whose columns are permuted around the extra one.
C7_Witness ==
    /\ Loaded
    /\ HeaderOf(inputFile)[1] = SALARY_FIELD
    /\ Len(rows) = 3
    /\ rows[1][SALARY_FIELD] = 12 /\ rows[2][SALARY_FIELD] = -3
    /\ rows[1][RATING_FIELD] = <<9, 2>> /\ rows[2][RATING_FIELD] = <<13, 4>>

\* C8 (as claimed): the written file is the header name, headcount,
\* min_salary, max_salary, avg_salary and one row per summary in list order,
\* its fields separated the way the input file's are.
C8_OutputUsesInputDelimiter ==
    (Loaded /\ option = "3") =>
        /\ outputFile.exists
        /\ Len(outputFile.lines) = 1 + Len(summaries)
        /\ Split(outputFile.lines[1], DELIMITER) = SummaryFields
        /\ \A i \in 1..Len(summaries) :
              Split(outputFile.lines[i + 1], DELIMITER) = SummaryRow(summaries[i])

\* C9: what a command leaves behind is a function of the input file alone:
\* the records are the file's records, the summaries those of the records,
\* the printed lines and the written file those of the summaries, whatever
\* commands ran before; only the output file outlives an iteration.
C9_RecomputedFromFile ==
    LET R == read_input_file(inputFile).val
        S == build_department_summaries(R)
    IN  pc = "menu" =>
          /\ rows \in {<<>>, R}
          /\ summaries \in {<<>>, S}
          /\ outputFile \in {NoFile, OldOutput, write_department_summaries(S)}
          /\ option \in {"1", "2", "3"} => rows = R
          /\ option \in {"2", "3"} => summaries = S
          /\ option = "1" => printed = print_company_hierarchy(R)
          /\ option = "2" => printed = print_department_summaries(S)
          /\ option = "3" => outputFile = write_department_summaries(S) /\ printed = <<>>
          /\ option \notin {"1", "2"} => printed = <<>>

\* Command 2 after command 3 has already loaded, built and written.
C9_Witness ==
    /\ Loaded /\ option = "2"
    /\ Len(summaries) = 2
    /\ outputFile = write_department_summaries(summaries)

\* C10: a command 3 whose load fails leaves the destination file as it was.
C10_FailedLoadKeepsOutput ==
    [][(option' = "3" /\ pc' = "crashed") => outputFile' = outputFile]_vars

C10_Witness ==
    /\ option = "3" /\ pc = "crashed"
    /\ outputFile = OldOutput

====
